---- MODULE Spec2Model ----
(***************************************************************************)
(* Device admission service (deviceadm): the admission engine DevAdm, the  *)
(* Mongo-backed DataStore it writes through and the deviceauth client it   *)
(* propagates status changes with.  Every engine handler is stateless; the *)
(* collection of auth sets and the remote authenticator are the only       *)
(* shared state, and handlers run concurrently, so a handler is modelled   *)
(* as one step per store or remote call it makes.                          *)
(***************************************************************************)
EXTENDS Integers, Sequences, FiniteSets, TLC

\* ------------------------------------------------------------------ bounds
\* total number of engine operations started in one behaviour
MaxOps == 2

\* the request workers that run handlers concurrently
Workers == {1, 2}
\* the auth set ids device submissions carry
SubmitIds == {1}

\* ------------------------------------------------------- program constants
StatusNoContent == 204
StatusUnprocessableEntity == 422
StatusCreated == 201

DevStatusPending == "pending"
DevStatusPreauthorized == "preauthorized"
DevStatusAccepted == "accepted"
DevStatusRejected == "rejected"

\* ------------------------------------------------------------------ errors
\* An error is the chain of its messages, outermost first; nil is <<>>.
Nil == <<>>
ErrAuthNotFound == <<"device auth set not found">>
ErrNotPreauthorized == <<"auth set must be in 'preauthorized' state">>
AuthSetConflictError == <<"device already exists">>
StoreErrNotFound == <<"store: not found">>
MgoErr == <<"mgo: driver error">>
HttpErr == <<"http: transport error">>

\* errors.Wrap: nil stays nil, anything else gains an outer message
Wrap(err, msg) == IF err = Nil THEN Nil ELSE <<msg>> \o err

\* utils.NewUsageError / utils.IsUsageError: a distinct error type, recognised
\* only on the outermost error
NewUsageError(text) == <<"UsageError", text>>
IsUsageError(err) == err # Nil /\ Head(err) = "UsageError"

\* ----------------------------------------------------------- auth records
\* model.DeviceAuth; the zero value of a field (0, "", <<>>) is "not set"
EmptyDeviceAuth ==
    [id |-> 0, device_id |-> 0, device_identity |-> "", key |-> "",
     status |-> "", attributes |-> <<>>, request_time |-> 0]

\* bson.NewObjectId(): the n-th identifier generated, distinct from every
\* identifier a caller supplies
NewObjectId(n) == 100 + n

\* the records device submissions carry (without id): two fully populated
\* ones for different devices, and one leaving every field unset
SubmitTemplates ==
    { [EmptyDeviceAuth EXCEPT !.device_id = 1, !.device_identity = "X",
           !.key = "k1", !.status = DevStatusPending, !.attributes = <<"a1">>],
      [EmptyDeviceAuth EXCEPT !.device_id = 2, !.device_identity = "Y",
           !.key = "k2", !.status = DevStatusPending, !.attributes = <<"a2">>],
      EmptyDeviceAuth }

\* model.AuthSet values the pre-authorization requests carry
AuthSets ==
    { [device_id |-> "X", key |-> "k1", attributes |-> <<"a1">>],
      [device_id |-> "Y", key |-> "k2", attributes |-> <<>>] }

AuthorizationHeaders == {"Bearer tok"}

\* outcome of one call into the Mongo driver
DriverOutcomes == {"ok", "index_err", "op_err"}

\* ------------------------------------------------------------- data store
\* produce a DeviceAuth wrapper suitable for passing in an Upsert() as
\* '$set' fields
genDeviceAuthUpdate(dev) ==
    LET u0 == EmptyDeviceAuth
        u1 == IF dev.device_id # 0 THEN [u0 EXCEPT !.device_id = dev.device_id] ELSE u0
        u2 == IF dev.status # "" THEN [u1 EXCEPT !.status = dev.status] ELSE u1
        u3 == IF dev.key # "" THEN [u2 EXCEPT !.key = dev.key] ELSE u2
        u4 == IF dev.device_identity # ""
              THEN [u3 EXCEPT !.device_identity = dev.device_identity] ELSE u3
        u5 == IF Len(dev.attributes) # 0
              THEN [u4 EXCEPT !.attributes = dev.attributes] ELSE u4
        u6 == IF dev.request_time # 0
              THEN [u5 EXCEPT !.request_time = dev.request_time] ELSE u5
    IN  u6

\* {"$set": updev}: the update document is marshalled with the zero-valued
\* fields left out, and $set replaces exactly the fields it names
BsonSet(doc, updev) ==
    [id |-> IF updev.id # 0 THEN updev.id ELSE doc.id,
     device_id |-> IF updev.device_id # 0 THEN updev.device_id ELSE doc.device_id,
     device_identity |-> IF updev.device_identity # ""
                         THEN updev.device_identity ELSE doc.device_identity,
     key |-> IF updev.key # "" THEN updev.key ELSE doc.key,
     status |-> IF updev.status # "" THEN updev.status ELSE doc.status,
     attributes |-> IF Len(updev.attributes) # 0
                    THEN updev.attributes ELSE doc.attributes,
     request_time |-> IF updev.request_time # 0
                      THEN updev.request_time ELSE doc.request_time]

\* c.Find(bson.M{"id": id})
FindById(coll, id) == {d \in coll : d.id = id}

\* GetDeviceAuth without the test for mgo.ErrNotFound: a missing record is
\* reported like any other failure of the query
GetDeviceAuth_NotFoundAsFailure(coll, id, out) ==
    IF out # "ok" \/ FindById(coll, id) = {}
    THEN [dev |-> EmptyDeviceAuth, err |-> Wrap(MgoErr, "failed to fetch device")]
    ELSE [dev |-> CHOOSE d \in FindById(coll, id) : TRUE, err |-> Nil]

\* GetDeviceAuth: [dev, err]
GetDeviceAuth(coll, id, out) ==
    IF out # "ok"
    THEN [dev |-> EmptyDeviceAuth, err |-> Wrap(MgoErr, "failed to fetch device")]
    ELSE IF FindById(coll, id) = {}
    THEN [dev |-> EmptyDeviceAuth, err |-> StoreErrNotFound]
    ELSE [dev |-> CHOOSE d \in FindById(coll, id) : TRUE, err |-> Nil]

\* PutDeviceAuth passing the update document without the '$set' operator: the
\* stored document is replaced by the fields supplied
PutDeviceAuth_Replaces(coll, dev, out) ==
    IF out = "index_err" THEN [db |-> coll, err |-> MgoErr]
    ELSE IF out = "op_err"
    THEN [db |-> coll, err |-> Wrap(MgoErr, "failed to store device")]
    ELSE [db |-> (coll \ FindById(coll, dev.id))
                 \cup {[genDeviceAuthUpdate(dev) EXCEPT !.id = dev.id]},
          err |-> Nil]

\* PutDeviceAuth with Insert in place of Upsert: the document built from the
\* fields supplied is added whether or not the id is already stored
PutDeviceAuth_Inserts(coll, dev, out) ==
    IF out = "index_err" THEN [db |-> coll, err |-> MgoErr]
    ELSE IF out = "op_err"
    THEN [db |-> coll, err |-> Wrap(MgoErr, "failed to store device")]
    ELSE [db |-> coll \cup
                 {BsonSet([EmptyDeviceAuth EXCEPT !.id = dev.id], genDeviceAuthUpdate(dev))},
          err |-> Nil]

\* PutDeviceAuth: upsert keyed on id with '$set' of the non-empty fields
PutDeviceAuth(coll, dev, out) ==
    IF out = "index_err" THEN [db |-> coll, err |-> MgoErr]
    ELSE IF out = "op_err"
    THEN [db |-> coll, err |-> Wrap(MgoErr, "failed to store device")]
    ELSE IF FindById(coll, dev.id) = {}
    THEN [db |-> coll \cup
                 {BsonSet([EmptyDeviceAuth EXCEPT !.id = dev.id], genDeviceAuthUpdate(dev))},
          err |-> Nil]
    ELSE LET old == CHOOSE d \in FindById(coll, dev.id) : TRUE
         IN  [db |-> (coll \ {old}) \cup {BsonSet(old, genDeviceAuthUpdate(dev))},
              err |-> Nil]

\* UpdateDeviceAuth: '$set' on the record with that id, not-found when absent
UpdateDeviceAuth(coll, dev, out) ==
    IF out = "index_err" THEN [db |-> coll, err |-> MgoErr]
    ELSE IF out = "op_err"
    THEN [db |-> coll, err |-> Wrap(MgoErr, "failed to update auth set")]
    ELSE IF FindById(coll, dev.id) = {}
    THEN [db |-> coll, err |-> StoreErrNotFound]
    ELSE LET old == CHOOSE d \in FindById(coll, dev.id) : TRUE
         IN  [db |-> (coll \ {old}) \cup {BsonSet(old, genDeviceAuthUpdate(dev))},
              err |-> Nil]

\* InsertDeviceAuth: assigns a fresh id and device id, then inserts; the
\* unique index on id refuses a second document with the same id
InsertDeviceAuth(coll, dev, n, out) ==
    LET doc == [dev EXCEPT !.id = NewObjectId(n), !.device_id = NewObjectId(n + 1)]
    IN  IF out = "index_err" THEN [db |-> coll, dev |-> doc, err |-> MgoErr]
        ELSE IF out = "op_err" \/ FindById(coll, doc.id) # {}
        THEN [db |-> coll, dev |-> doc, err |-> Wrap(MgoErr, "failed to insert device")]
        ELSE [db |-> coll \cup {doc}, dev |-> doc, err |-> Nil]

\* GetDeviceAuthsByIdentityData: [devs, err]
GetDeviceAuthsByIdentityData(coll, idata, out) ==
    IF out # "ok"
    THEN [devs |-> {}, err |-> Wrap(MgoErr, "failed to fetch device")]
    ELSE [devs |-> {d \in coll : d.device_identity = idata}, err |-> Nil]

\* DeleteDeviceAuth: removes the record with that id
DeleteDeviceAuthStore(coll, id, out) ==
    IF out # "ok"
    THEN [db |-> coll, err |-> Wrap(MgoErr, "failed to delete device")]
    ELSE IF FindById(coll, id) = {}
    THEN [db |-> coll, err |-> StoreErrNotFound]
    ELSE [db |-> coll \ {CHOOSE d \in FindById(coll, id) : TRUE}, err |-> Nil]

\* DeleteDeviceAuthByDevice with Remove in place of RemoveAll: one matching
\* record is removed
DeleteDeviceAuthByDevice_RemovesOne(coll, devid, out) ==
    LET matching == {d \in coll : d.device_id = devid}
        err == IF out # "ok" THEN MgoErr ELSE Nil
        removed == IF out # "ok" \/ matching = {} THEN 0 ELSE 1
        after == IF out # "ok" \/ matching = {} THEN coll
                 ELSE coll \ {CHOOSE d \in matching : TRUE}
    IN  IF err # Nil THEN [db |-> after, err |-> Nil]
        ELSE IF removed = 0 THEN [db |-> after, err |-> StoreErrNotFound]
        ELSE [db |-> after, err |-> Wrap(err, "failed to delete device")]

\* DeleteDeviceAuthByDevice: RemoveAll on the device id, then the switch on
\* (err, ci.Removed) as written
DeleteDeviceAuthByDevice(coll, devid, out) ==
    LET matching == {d \in coll : d.device_id = devid}
        err == IF out # "ok" THEN MgoErr ELSE Nil
        removed == IF out # "ok" THEN 0 ELSE Cardinality(matching)
        after == IF out # "ok" THEN coll ELSE coll \ matching
    IN  IF err # Nil THEN [db |-> after, err |-> Nil]
        ELSE IF removed = 0 THEN [db |-> after, err |-> StoreErrNotFound]
        ELSE [db |-> after, err |-> Wrap(err, "failed to delete device")]

\* ---------------------------------------------------------------- migration
\* schema versions, major.minor.patch; DbVersion is the version this service
\* migrates to, NoVersion what a database without migration record reports
DbVersion == <<1, 1, 0>>
NoVersion == <<0, 0, 0>>
Versions == {NoVersion, <<1, 0, 0>>, DbVersion}

\* the databases migrations run on: the default one ("") and one tenant's
TenantDbs == {"", "acme"}

VersionIsLess(a, b) ==
    \/ a[1] < b[1]
    \/ a[1] = b[1] /\ a[2] < b[2]
    \/ a[1] = b[1] /\ a[2] = b[2] /\ a[3] < b[3]

\* the store value: the session is shared, the flag is the value's own
NewDataStoreMongo(flag) == [session |-> "session", automigrate |-> flag]

\* WithAutomigrate: a new store value on the same session, automigrate on
WithAutomigrate(st) == [session |-> st.session, automigrate |-> TRUE]

\* migrate.SimpleMigrator.Apply for a database at version current: with
\* automigrate the pending migrations up to target are applied and target is
\* recorded; without, the version is only checked. [version, err]
SimpleMigratorApply(current, target, auto, out) ==
    IF out # "ok" THEN [version |-> current, err |-> MgoErr]
    ELSE IF ~auto
    THEN [version |-> current,
          err |-> IF VersionIsLess(current, target)
                  THEN <<"db needs migration">> ELSE Nil]
    ELSE [version |-> IF VersionIsLess(current, target) THEN target ELSE current,
          err |-> Nil]

\* MigrateTenant: run the migrator on the tenant's database with the flag of
\* the store value it is called on. [dbs, err]
MigrateTenant(st, dbs, version, tenant, out) ==
    LET r == SimpleMigratorApply(dbs[tenant], version, st.automigrate, out)
    IN  [dbs |-> [dbs EXCEPT ![tenant] = r.version],
         err |-> Wrap(r.err, "failed to apply migrations")]

\* ------------------------------------------------------ deviceauth client
\* what the HTTP runner hands back for one request: a transport error, or a
\* response with a status code and, for 422, a body that does or does not
\* parse as an API error
UpdateResponses ==
    { [transport |-> TRUE,  code |-> 0, api |-> FALSE],
      [transport |-> FALSE, code |-> StatusNoContent, api |-> FALSE],
      [transport |-> FALSE, code |-> StatusUnprocessableEntity, api |-> TRUE],
      [transport |-> FALSE, code |-> StatusUnprocessableEntity, api |-> FALSE],
      [transport |-> FALSE, code |-> 200, api |-> FALSE],
      [transport |-> FALSE, code |-> 500, api |-> FALSE] }

PreauthResponses ==
    { [transport |-> TRUE,  code |-> 0, api |-> FALSE],
      [transport |-> FALSE, code |-> StatusCreated, api |-> FALSE],
      [transport |-> FALSE, code |-> 500, api |-> FALSE] }

\* Client.UpdateDevice reporting every 422 as a usage error, whether or not
\* its body parses as an API error
ClientUpdateDevice_UnparsedIsUsage(rsp) ==
    IF rsp.transport THEN Wrap(HttpErr, "failed to update device status")
    ELSE IF rsp.code = StatusNoContent THEN Nil
    ELSE IF rsp.code = StatusUnprocessableEntity
    THEN NewUsageError(IF rsp.api THEN "api error" ELSE "failed to decode error")
    ELSE <<"device status update request failed with status", ToString(rsp.code)>>

\* Client.UpdateDevice: the error returned for a response
ClientUpdateDevice(rsp) ==
    IF rsp.transport THEN Wrap(HttpErr, "failed to update device status")
    ELSE IF rsp.code = StatusNoContent THEN Nil
    ELSE IF rsp.code = StatusUnprocessableEntity
    THEN IF rsp.api THEN NewUsageError("api error")
         ELSE Wrap(<<"failed to decode error">>, "device status update request failed")
    ELSE <<"device status update request failed with status", ToString(rsp.code)>>

\* Client.PreauthorizeDevice: the error returned for a response
ClientPreauthorizeDevice(rsp) ==
    IF rsp.transport THEN Wrap(HttpErr, "failed to preauthorize device")
    ELSE IF rsp.code = StatusCreated THEN Nil
    ELSE <<"device preauthorize request failed with status", ToString(rsp.code)>>

\* ------------------------------------------------------------------ state
VARIABLES
    db,          \* the devices collection: a set of auth set documents
    remoteLog,   \* status requests the auth service answered 204 to, oldest first
    preauthLog,  \* pre-authorization requests the auth service answered 201 to
    pc,          \* per worker: where its current handler stands
    arg,         \* per worker: the operation it runs and its arguments
    dev,         \* per worker: the handler's local variable dev
    deviceAuths, \* per worker: the handler's local variable deviceAuths
    calls,       \* per worker: remote requests its current handler has made
    writes,      \* per worker: store write calls its current handler has issued
    last,        \* the handler that returned last: its operation, arguments and error
    clock,       \* readings taken from the clock so far
    nextObj,     \* object ids generated so far
    ops,         \* operations started so far
    automigrate, \* the automigrate flag of the engine's store
    tenantDbs,   \* per database: the schema version recorded in it
    mdb,         \* per worker: the store value its handler migrates with
    todo         \* per worker: the databases its Migrate has still to visit

vars == <<db, remoteLog, preauthLog, pc, arg, dev, deviceAuths, calls, writes, last,
          clock, nextObj, ops, automigrate, tenantDbs, mdb, todo>>

\* the state of the migrations
migrationVars == <<automigrate, tenantDbs, mdb, todo>>

NoAuthSet == [device_id |-> "", key |-> "", attributes |-> <<>>]
NoArg == [op |-> "none", id |-> 0, device_id |-> 0, status |-> "",
          authSet |-> NoAuthSet, hdr |-> "", tenant |-> ""]

\* the ids a caller may name: those device submissions carry and those of
\* the records in the collection
KnownIds == SubmitIds \cup {d.id : d \in db}
KnownDeviceIds == {1, 2} \cup {d.device_id : d \in db}

\* the status the auth service holds for device devid's auth set aid: the
\* one of the last request it answered 204 to ("" when there is none)
RECURSIVE RemoteStatus(_, _, _)
RemoteStatus(log, devid, aid) ==
    IF log = <<>> THEN ""
    ELSE LET r == log[Len(log)]
         IN  IF r.device_id = devid /\ r.auth_id = aid THEN r.status
             ELSE RemoteStatus(SubSeq(log, 1, Len(log) - 1), devid, aid)

\* The collection outlives the service: a behaviour starts from an empty
\* collection, or from one earlier request's outcome: a submitted auth set,
\* or a pre-authorized one the auth service was told of.
SubmittedStart ==
    LET d == [(CHOOSE t \in SubmitTemplates : t.device_id = 1)
                 EXCEPT !.id = 1, !.request_time = 1]
    IN  [db |-> PutDeviceAuth({}, d, "ok").db, preauthLog |-> {},
         clock |-> 1, nextObj |-> 0]

PreauthorizedStart ==
    LET a == CHOOSE x \in AuthSets : x.device_id = "X"
        d == [EmptyDeviceAuth EXCEPT !.device_identity = a.device_id,
                                     !.status = DevStatusPreauthorized,
                                     !.attributes = a.attributes,
                                     !.key = a.key,
                                     !.request_time = 1]
        r == InsertDeviceAuth({}, d, 0, "ok")
    IN  [db |-> r.db,
         preauthLog |-> {[device_id |-> r.dev.device_id, auth_set_id |-> r.dev.id,
                          id_data |-> r.dev.device_identity, pubkey |-> r.dev.key,
                          authorization |-> "Bearer tok"]},
         clock |-> 1, nextObj |-> 2]

EmptyStart == [db |-> {}, preauthLog |-> {}, clock |-> 0, nextObj |-> 0]

\* one device with two auth sets (a rotated key) beside another device's
DeviceStart ==
    LET a == CHOOSE t \in SubmitTemplates : t.device_id = 1
        b == CHOOSE t \in SubmitTemplates : t.device_id = 2
        d1 == PutDeviceAuth({}, [a EXCEPT !.id = 1, !.request_time = 1], "ok").db
        d2 == PutDeviceAuth(d1, [a EXCEPT !.id = 2, !.key = "k3", !.request_time = 2],
                            "ok").db
        d3 == PutDeviceAuth(d2, [b EXCEPT !.id = 3, !.request_time = 3], "ok").db
    IN  [db |-> d3, preauthLog |-> {}, clock |-> 3, nextObj |-> 0]

\* the collection and the auth service as start s leaves them
StoreStart(s) ==
    /\ db = s.db
    /\ preauthLog = s.preauthLog
    /\ clock = s.clock
    /\ nextObj = s.nextObj
    /\ remoteLog = <<>>

\* no request is being handled
WorkersIdle ==
    /\ pc = [p \in Workers |-> "idle"]
    /\ arg = [p \in Workers |-> NoArg]
    /\ dev = [p \in Workers |-> EmptyDeviceAuth]
    /\ deviceAuths = [p \in Workers |-> {}]
    /\ calls = [p \in Workers |-> <<>>]
    /\ writes = [p \in Workers |-> 0]
    /\ mdb = [p \in Workers |-> NewDataStoreMongo(FALSE)]
    /\ todo = [p \in Workers |-> <<>>]
    /\ last = [arg |-> NoArg, err |-> Nil]
    /\ ops = 0

\* the engine's store has automigrate as the command line set it, and the
\* databases are at the versions found
MigrationStart(flag, versions) ==
    /\ automigrate = flag
    /\ tenantDbs = versions

Init ==
    /\ \E s \in {EmptyStart, SubmittedStart, PreauthorizedStart} : StoreStart(s)
    /\ WorkersIdle
    /\ MigrationStart(FALSE, [t \in TenantDbs |-> DbVersion])

InitDevice ==
    /\ StoreStart(DeviceStart)
    /\ WorkersIdle
    /\ MigrationStart(FALSE, [t \in TenantDbs |-> DbVersion])

InitMigration ==
    /\ StoreStart(EmptyStart)
    /\ WorkersIdle
    /\ \E flag \in BOOLEAN : \E versions \in [TenantDbs -> Versions] :
           MigrationStart(flag, versions)

\* a new request is handed to the first idle worker
Begin(p) ==
    /\ pc[p] = "idle"
    /\ \A q \in Workers : q < p => pc[q] # "idle"
    /\ ops < MaxOps
    /\ ops' = ops + 1

\* the handler worker p runs for request a returns err; its locals go out of
\* scope
Return(p, a, err) ==
    /\ pc' = [pc EXCEPT ![p] = "idle"]
    /\ arg' = [arg EXCEPT ![p] = NoArg]
    /\ dev' = [dev EXCEPT ![p] = EmptyDeviceAuth]
    /\ deviceAuths' = [deviceAuths EXCEPT ![p] = {}]
    /\ calls' = [calls EXCEPT ![p] = <<>>]
    /\ writes' = [writes EXCEPT ![p] = 0]
    /\ last' = [arg |-> a, err |-> err]

\* the handler worker p runs for request a goes on to its next call with
\* locals dev = d and deviceAuths = found, having made the remote requests c
\* and issued w store writes
ContinueWith(p, a, next, d, found, c, w) ==
    /\ pc' = [pc EXCEPT ![p] = next]
    /\ arg' = [arg EXCEPT ![p] = a]
    /\ dev' = [dev EXCEPT ![p] = d]
    /\ deviceAuths' = [deviceAuths EXCEPT ![p] = found]
    /\ calls' = [calls EXCEPT ![p] = c]
    /\ writes' = [writes EXCEPT ![p] = w]
    /\ UNCHANGED last

Continue(p, a, next, d, c, w) == ContinueWith(p, a, next, d, deviceAuths[p], c, w)

\* ------------------------------------------------------- admission engine
\* SubmitDeviceAuth without the time stamp: the record is stored as submitted
SubmitDeviceAuth_NoStamp(p, d, out) ==
    LET r == PutDeviceAuth(db, d, out)
    IN  /\ Begin(p)
        /\ clock' = clock + 1
        /\ db' = r.db
        /\ Return(p, [NoArg EXCEPT !.op = "submit", !.id = d.id],
                  Wrap(r.err, "failed to put device"))
        /\ UNCHANGED <<remoteLog, preauthLog, nextObj>>

\* SubmitDeviceAuth: stamp the request time, upsert the record
SubmitDeviceAuth(p, d, out) ==
    LET now == clock + 1
        r == PutDeviceAuth(db, [d EXCEPT !.request_time = now], out)
    IN  /\ Begin(p)
        /\ clock' = now
        /\ db' = r.db
        /\ Return(p, [NoArg EXCEPT !.op = "submit", !.id = d.id],
                  Wrap(r.err, "failed to put device"))
        /\ UNCHANGED <<remoteLog, preauthLog, nextObj>>

\* DeleteDeviceAuth without the case for store.ErrNotFound: every error of
\* the store is wrapped
DeleteDeviceAuth_WrapsNotFound(p, id, out) ==
    LET r == DeleteDeviceAuthStore(db, id, out)
    IN  /\ Begin(p)
        /\ db' = r.db
        /\ Return(p, [NoArg EXCEPT !.op = "delete", !.id = id],
                  Wrap(r.err, "failed to delete device"))
        /\ UNCHANGED <<remoteLog, preauthLog, clock, nextObj>>

\* DeleteDeviceAuth: not-found is passed on as it is, other errors wrapped
DeleteDeviceAuth(p, id, out) ==
    LET r == DeleteDeviceAuthStore(db, id, out)
    IN  /\ Begin(p)
        /\ db' = r.db
        /\ Return(p, [NoArg EXCEPT !.op = "delete", !.id = id],
                  IF r.err = Nil THEN Nil
                  ELSE IF r.err = StoreErrNotFound THEN r.err
                  ELSE Wrap(r.err, "failed to delete device"))
        /\ UNCHANGED <<remoteLog, preauthLog, clock, nextObj>>

\* DeleteDeviceData: whatever the store's bulk removal returns
DeleteDeviceData(p, devid, out) ==
    LET r == DeleteDeviceAuthByDevice(db, devid, out)
    IN  /\ Begin(p)
        /\ db' = r.db
        /\ Return(p, [NoArg EXCEPT !.op = "delete_device", !.device_id = devid], r.err)
        /\ UNCHANGED <<remoteLog, preauthLog, clock, nextObj>>

\* updateDeviceAuthStatus, first part: fetch the record and set the target
\* status on the local copy
updateDeviceAuthStatus(p, opname, id, status, out) ==
    LET a == [NoArg EXCEPT !.op = opname, !.id = id, !.status = status]
        g == GetDeviceAuth(db, id, out)
    IN  /\ Begin(p)
        /\ IF g.err # Nil
           THEN Return(p, a, g.err)
           ELSE Continue(p, a, "propagate", [g.dev EXCEPT !.status = status], <<>>, 0)
        /\ UNCHANGED <<db, remoteLog, preauthLog, clock, nextObj>>

\* AcceptDeviceAuth passing the wrong target status
AcceptDeviceAuth_WrongStatus(p, id, out) ==
    updateDeviceAuthStatus(p, "accept", id, DevStatusRejected, out)

AcceptDeviceAuth(p, id, out) ==
    updateDeviceAuthStatus(p, "accept", id, DevStatusAccepted, out)

RejectDeviceAuth(p, id, out) ==
    updateDeviceAuthStatus(p, "reject", id, DevStatusRejected, out)

\* propagateDeviceAuthUpdate with the error of the remote call dropped: the
\* handler goes on to the store write whatever the auth service answered
propagateDeviceAuthUpdate_IgnoreError(p, rsp) ==
    LET sreq == [auth_id |-> dev[p].id, device_id |-> dev[p].device_id,
                 status |-> dev[p].status]
    IN  /\ pc[p] = "propagate"
        /\ remoteLog' = IF ~rsp.transport /\ rsp.code = StatusNoContent
                        THEN Append(remoteLog, sreq) ELSE remoteLog
        /\ Continue(p, arg[p], "put", dev[p], Append(calls[p], sreq), writes[p])
        /\ UNCHANGED <<db, preauthLog, clock, nextObj, ops>>

\* propagateDeviceAuthUpdate returning only usage errors: any other failure
\* of the remote call is dropped and the handler goes on to the store write
propagateDeviceAuthUpdate_OnlyUsageErrors(p, rsp) ==
    LET sreq == [auth_id |-> dev[p].id, device_id |-> dev[p].device_id,
                 status |-> dev[p].status]
        err == ClientUpdateDevice(rsp)
    IN  /\ pc[p] = "propagate"
        /\ remoteLog' = IF ~rsp.transport /\ rsp.code = StatusNoContent
                        THEN Append(remoteLog, sreq) ELSE remoteLog
        /\ IF IsUsageError(err)
           THEN Return(p, arg[p], err)
           ELSE Continue(p, arg[p], "put", dev[p], Append(calls[p], sreq), writes[p])
        /\ UNCHANGED <<db, preauthLog, clock, nextObj, ops>>

\* propagateDeviceAuthUpdate with the two identifiers of the request swapped
propagateDeviceAuthUpdate_SwappedIds(p, rsp) ==
    LET sreq == [auth_id |-> dev[p].device_id, device_id |-> dev[p].id,
                 status |-> dev[p].status]
        err == ClientUpdateDevice(rsp)
    IN  /\ pc[p] = "propagate"
        /\ remoteLog' = IF ~rsp.transport /\ rsp.code = StatusNoContent
                        THEN Append(remoteLog, sreq) ELSE remoteLog
        /\ IF err # Nil
           THEN Return(p, arg[p],
                       IF IsUsageError(err) THEN err
                       ELSE Wrap(err, "failed to propagate device status update"))
           ELSE Continue(p, arg[p], "put", dev[p], Append(calls[p], sreq), writes[p])
        /\ UNCHANGED <<db, preauthLog, clock, nextObj, ops>>

\* propagateDeviceAuthUpdate without the test for a usage error: every error
\* of the remote call is wrapped
propagateDeviceAuthUpdate_WrapsAll(p, rsp) ==
    LET sreq == [auth_id |-> dev[p].id, device_id |-> dev[p].device_id,
                 status |-> dev[p].status]
        err == ClientUpdateDevice(rsp)
    IN  /\ pc[p] = "propagate"
        /\ remoteLog' = IF ~rsp.transport /\ rsp.code = StatusNoContent
                        THEN Append(remoteLog, sreq) ELSE remoteLog
        /\ IF err # Nil
           THEN Return(p, arg[p], Wrap(err, "failed to propagate device status update"))
           ELSE Continue(p, arg[p], "put", dev[p], Append(calls[p], sreq), writes[p])
        /\ UNCHANGED <<db, preauthLog, clock, nextObj, ops>>

\* propagateDeviceAuthUpdate: forward the status to the auth service; a usage
\* error is returned as it is, any other error wrapped
propagateDeviceAuthUpdate(p, rsp) ==
    LET sreq == [auth_id |-> dev[p].id, device_id |-> dev[p].device_id,
                 status |-> dev[p].status]
        err == ClientUpdateDevice(rsp)
    IN  /\ pc[p] = "propagate"
        /\ remoteLog' = IF ~rsp.transport /\ rsp.code = StatusNoContent
                        THEN Append(remoteLog, sreq) ELSE remoteLog
        /\ IF err # Nil
           THEN Return(p, arg[p],
                       IF IsUsageError(err) THEN err
                       ELSE Wrap(err, "failed to propagate device status update"))
           ELSE Continue(p, arg[p], "put", dev[p], Append(calls[p], sreq), writes[p])
        /\ UNCHANGED <<db, preauthLog, clock, nextObj, ops>>

\* updateDeviceAuthStatus with the error of the store write dropped
updateDeviceAuthStatusPut_DropsError(p, out) ==
    LET r == PutDeviceAuth(db, [EmptyDeviceAuth EXCEPT !.id = dev[p].id,
                                    !.device_id = dev[p].device_id,
                                    !.status = dev[p].status], out)
    IN  /\ pc[p] = "put"
        /\ db' = r.db
        /\ Return(p, arg[p], Nil)
        /\ UNCHANGED <<remoteLog, preauthLog, clock, nextObj, ops>>

\* updateDeviceAuthStatus, last part: update only the status (and the device
\* id carried along) of the stored record
updateDeviceAuthStatusPut(p, out) ==
    LET r == PutDeviceAuth(db, [EmptyDeviceAuth EXCEPT !.id = dev[p].id,
                                    !.device_id = dev[p].device_id,
                                    !.status = dev[p].status], out)
    IN  /\ pc[p] = "put"
        /\ db' = r.db
        /\ Return(p, arg[p], r.err)
        /\ UNCHANGED <<remoteLog, preauthLog, clock, nextObj, ops>>

\* AcceptDevicePreAuth without the check of the current status
AcceptDevicePreAuth_NoStatusCheck(p, id, out) ==
    LET a == [NoArg EXCEPT !.op = "accept_preauth", !.id = id,
                           !.status = DevStatusAccepted]
        g == GetDeviceAuth(db, id, out)
    IN  /\ Begin(p)
        /\ IF g.err = StoreErrNotFound THEN Return(p, a, ErrAuthNotFound)
           ELSE IF g.err # Nil
           THEN Return(p, a, Wrap(g.err, "failed to fetch auth set"))
           ELSE Continue(p, a, "update", g.dev, <<>>, 0)
        /\ UNCHANGED <<db, remoteLog, preauthLog, clock, nextObj>>

\* AcceptDevicePreAuth, first part: fetch the record and require the
\* preauthorized status
AcceptDevicePreAuth(p, id, out) ==
    LET a == [NoArg EXCEPT !.op = "accept_preauth", !.id = id,
                           !.status = DevStatusAccepted]
        g == GetDeviceAuth(db, id, out)
    IN  /\ Begin(p)
        /\ IF g.err = StoreErrNotFound THEN Return(p, a, ErrAuthNotFound)
           ELSE IF g.err # Nil
           THEN Return(p, a, Wrap(g.err, "failed to fetch auth set"))
           ELSE IF g.dev.status # DevStatusPreauthorized
           THEN Return(p, a, ErrNotPreauthorized)
           ELSE Continue(p, a, "update", g.dev, <<>>, 0)
        /\ UNCHANGED <<db, remoteLog, preauthLog, clock, nextObj>>

\* AcceptDevicePreAuth forwarding the accepted status to the auth service
\* after its store update, as Accept does before it
AcceptDevicePreAuthUpdate_Propagates(p, out) ==
    LET r == UpdateDeviceAuth(db, [EmptyDeviceAuth EXCEPT !.id = dev[p].id,
                                       !.status = DevStatusAccepted], out)
    IN  /\ pc[p] = "update"
        /\ db' = r.db
        /\ remoteLog' = IF r.err = Nil
                        THEN Append(remoteLog, [auth_id |-> dev[p].id,
                                                device_id |-> dev[p].device_id,
                                                status |-> DevStatusAccepted])
                        ELSE remoteLog
        /\ Return(p, arg[p], Wrap(r.err, "failed to update auth set"))
        /\ UNCHANGED <<preauthLog, clock, nextObj, ops>>

\* AcceptDevicePreAuth, last part: set the stored status to accepted
AcceptDevicePreAuthUpdate(p, out) ==
    LET r == UpdateDeviceAuth(db, [EmptyDeviceAuth EXCEPT !.id = dev[p].id,
                                       !.status = DevStatusAccepted], out)
    IN  /\ pc[p] = "update"
        /\ db' = r.db
        /\ Return(p, arg[p], Wrap(r.err, "failed to update auth set"))
        /\ UNCHANGED <<remoteLog, preauthLog, clock, nextObj, ops>>

\* PreauthorizeDevice counting only the preauthorized records with the same
\* identity data as a conflict
PreauthorizeDevice_OnlyPreauthorizedConflict(p, authSet, hdr, out) ==
    LET a == [NoArg EXCEPT !.op = "preauthorize", !.authSet = authSet, !.hdr = hdr]
        g == GetDeviceAuthsByIdentityData(db, authSet.device_id, out)
        same == {d \in g.devs : d.status = DevStatusPreauthorized}
    IN  /\ Begin(p)
        /\ IF g.err # Nil THEN Return(p, a, g.err)
           ELSE IF Cardinality(same) > 0 THEN Return(p, a, AuthSetConflictError)
           ELSE ContinueWith(p, a, "insert", EmptyDeviceAuth, g.devs, <<>>, 0)
        /\ UNCHANGED <<db, remoteLog, preauthLog, clock, nextObj>>

\* PreauthorizeDevice reporting a conflict only from the second record with
\* the same identity data on
PreauthorizeDevice_ConflictFromSecond(p, authSet, hdr, out) ==
    LET a == [NoArg EXCEPT !.op = "preauthorize", !.authSet = authSet, !.hdr = hdr]
        g == GetDeviceAuthsByIdentityData(db, authSet.device_id, out)
    IN  /\ Begin(p)
        /\ IF g.err # Nil THEN Return(p, a, g.err)
           ELSE IF Cardinality(g.devs) > 1 THEN Return(p, a, AuthSetConflictError)
           ELSE ContinueWith(p, a, "insert", EmptyDeviceAuth, g.devs, <<>>, 0)
        /\ UNCHANGED <<db, remoteLog, preauthLog, clock, nextObj>>

\* PreauthorizeDevice sending the pre-authorization again when the record it
\* finds is a preauthorized one
PreauthorizeDevice_ResendsOnConflict(p, authSet, hdr, out) ==
    LET a == [NoArg EXCEPT !.op = "preauthorize", !.authSet = authSet, !.hdr = hdr]
        g == GetDeviceAuthsByIdentityData(db, authSet.device_id, out)
        pre == {d \in g.devs : d.status = DevStatusPreauthorized}
    IN  /\ Begin(p)
        /\ IF g.err # Nil THEN Return(p, a, g.err)
           ELSE IF pre # {}
           THEN ContinueWith(p, a, "propagate_preauth", CHOOSE d \in pre : TRUE,
                             g.devs, <<>>, 0)
           ELSE IF Cardinality(g.devs) > 0 THEN Return(p, a, AuthSetConflictError)
           ELSE ContinueWith(p, a, "insert", EmptyDeviceAuth, g.devs, <<>>, 0)
        /\ UNCHANGED <<db, remoteLog, preauthLog, clock, nextObj>>

\* PreauthorizeDevice, first part: look for records with the same identity
\* data
PreauthorizeDevice(p, authSet, hdr, out) ==
    LET a == [NoArg EXCEPT !.op = "preauthorize", !.authSet = authSet, !.hdr = hdr]
        g == GetDeviceAuthsByIdentityData(db, authSet.device_id, out)
    IN  /\ Begin(p)
        /\ IF g.err # Nil THEN Return(p, a, g.err)
           ELSE IF Cardinality(g.devs) > 0 THEN Return(p, a, AuthSetConflictError)
           ELSE ContinueWith(p, a, "insert", EmptyDeviceAuth, g.devs, <<>>, 0)
        /\ UNCHANGED <<db, remoteLog, preauthLog, clock, nextObj>>

\* PreauthorizeDevice building the record without the key of the auth set
PreauthorizeDeviceInsert_NoKey(p, out) ==
    LET now == clock + 1
        d == [EmptyDeviceAuth EXCEPT !.device_identity = arg[p].authSet.device_id,
                                     !.status = DevStatusPreauthorized,
                                     !.attributes = arg[p].authSet.attributes,
                                     !.request_time = now]
        r == InsertDeviceAuth(db, d, nextObj, out)
    IN  /\ pc[p] = "insert"
        /\ clock' = now
        /\ nextObj' = nextObj + 2
        /\ db' = r.db
        /\ IF r.err # Nil THEN Return(p, arg[p], r.err)
           ELSE Continue(p, arg[p], "propagate_preauth", r.dev, calls[p], writes[p] + 1)
        /\ UNCHANGED <<remoteLog, preauthLog, ops>>

\* PreauthorizeDevice, middle part: build the record, stamp it from the
\* clock and insert it
PreauthorizeDeviceInsert(p, out) ==
    LET now == clock + 1
        d == [EmptyDeviceAuth EXCEPT !.device_identity = arg[p].authSet.device_id,
                                     !.status = DevStatusPreauthorized,
                                     !.attributes = arg[p].authSet.attributes,
                                     !.key = arg[p].authSet.key,
                                     !.request_time = now]
        r == InsertDeviceAuth(db, d, nextObj, out)
    IN  /\ pc[p] = "insert"
        /\ clock' = now
        /\ nextObj' = nextObj + 2
        /\ db' = r.db
        /\ IF r.err # Nil THEN Return(p, arg[p], r.err)
           ELSE Continue(p, arg[p], "propagate_preauth", r.dev, calls[p], writes[p] + 1)
        /\ UNCHANGED <<remoteLog, preauthLog, ops>>

\* propagatePreauthorizeDevice with a compensating delete: the record just
\* inserted is removed again when the auth service refuses it
propagatePreauthorizeDevice_RollsBack(p, rsp) ==
    LET req == [device_id |-> dev[p].device_id, auth_set_id |-> dev[p].id,
                id_data |-> dev[p].device_identity, pubkey |-> dev[p].key,
                authorization |-> arg[p].hdr]
        err == ClientPreauthorizeDevice(rsp)
    IN  /\ pc[p] = "propagate_preauth"
        /\ preauthLog' = IF err = Nil THEN preauthLog \cup {req} ELSE preauthLog
        /\ db' = IF err = Nil THEN db ELSE db \ FindById(db, dev[p].id)
        /\ Return(p, arg[p], Wrap(err, "failed to propagate device status update"))
        /\ UNCHANGED <<remoteLog, clock, nextObj, ops>>

\* propagatePreauthorizeDevice: forward the pre-authorization to the auth
\* service
propagatePreauthorizeDevice(p, rsp) ==
    LET req == [device_id |-> dev[p].device_id, auth_set_id |-> dev[p].id,
                id_data |-> dev[p].device_identity, pubkey |-> dev[p].key,
                authorization |-> arg[p].hdr]
        err == ClientPreauthorizeDevice(rsp)
    IN  /\ pc[p] = "propagate_preauth"
        /\ preauthLog' = IF err = Nil THEN preauthLog \cup {req} ELSE preauthLog
        /\ Return(p, arg[p], Wrap(err, "failed to propagate device status update"))
        /\ UNCHANGED <<db, remoteLog, clock, nextObj, ops>>

\* ProvisionTenant calling MigrateTenant on the engine's own store
ProvisionTenant_OwnStore(p, tenant) ==
    /\ Begin(p)
    /\ mdb' = [mdb EXCEPT ![p] = NewDataStoreMongo(automigrate)]
    /\ Continue(p, [NoArg EXCEPT !.op = "provision", !.tenant = tenant],
                "migrate_tenant", EmptyDeviceAuth, <<>>, 0)
    /\ UNCHANGED <<db, remoteLog, preauthLog, clock, nextObj, automigrate, tenantDbs, todo>>

\* ProvisionTenant, first part: obtain the store value with automigrate on
ProvisionTenant(p, tenant) ==
    /\ Begin(p)
    /\ mdb' = [mdb EXCEPT ![p] = WithAutomigrate(NewDataStoreMongo(automigrate))]
    /\ Continue(p, [NoArg EXCEPT !.op = "provision", !.tenant = tenant],
                "migrate_tenant", EmptyDeviceAuth, <<>>, 0)
    /\ UNCHANGED <<db, remoteLog, preauthLog, clock, nextObj, automigrate, tenantDbs, todo>>

\* ProvisionTenant, last part: MigrateTenant to DbVersion on that value
ProvisionTenantMigrate(p, out) ==
    LET r == MigrateTenant(mdb[p], tenantDbs, DbVersion, arg[p].tenant, out)
    IN  /\ pc[p] = "migrate_tenant"
        /\ tenantDbs' = r.dbs
        /\ mdb' = [mdb EXCEPT ![p] = NewDataStoreMongo(FALSE)]
        /\ Return(p, arg[p], r.err)
        /\ UNCHANGED <<db, remoteLog, preauthLog, clock, nextObj, ops, automigrate, todo>>

\* Migrate, first part: list the tenant databases (found), the default one
\* when there is none
Migrate(p, found, out) ==
    LET a == [NoArg EXCEPT !.op = "migrate"]
    IN  /\ Begin(p)
        /\ IF out # "ok"
           THEN /\ Return(p, a, Wrap(MgoErr, "failed go retrieve tenant DBs"))
                /\ UNCHANGED <<mdb, todo>>
           ELSE /\ Continue(p, a, "migrate", EmptyDeviceAuth, <<>>, 0)
                /\ mdb' = [mdb EXCEPT ![p] = NewDataStoreMongo(automigrate)]
                /\ todo' = [todo EXCEPT ![p] = IF Len(found) = 0 THEN <<"">> ELSE found]
        /\ UNCHANGED <<db, remoteLog, preauthLog, clock, nextObj, automigrate, tenantDbs>>

\* Migrate, loop body: MigrateTenant on the next database, on the store value
\* Migrate was called on
MigrateNext(p, out) ==
    LET r == MigrateTenant(mdb[p], tenantDbs, DbVersion, Head(todo[p]), out)
    IN  /\ pc[p] = "migrate"
        /\ tenantDbs' = r.dbs
        /\ IF r.err # Nil \/ Len(todo[p]) = 1
           THEN /\ Return(p, arg[p], r.err)
                /\ mdb' = [mdb EXCEPT ![p] = NewDataStoreMongo(FALSE)]
                /\ todo' = [todo EXCEPT ![p] = <<>>]
           ELSE /\ Continue(p, arg[p], "migrate", EmptyDeviceAuth, <<>>, 0)
                /\ todo' = [todo EXCEPT ![p] = Tail(todo[p])]
                /\ UNCHANGED mdb
        /\ UNCHANGED <<db, remoteLog, preauthLog, clock, nextObj, ops, automigrate>>

Next ==
    /\ UNCHANGED migrationVars
    /\ \E p \in Workers :
               \/ \E id \in KnownIds, t \in SubmitTemplates, out \in DriverOutcomes :
                      SubmitDeviceAuth(p, [t EXCEPT !.id = id], out)
               \/ \E id \in KnownIds, out \in DriverOutcomes : DeleteDeviceAuth(p, id, out)
               \/ \E d \in KnownDeviceIds, out \in DriverOutcomes : DeleteDeviceData(p, d, out)
               \/ \E id \in KnownIds, out \in DriverOutcomes : AcceptDeviceAuth(p, id, out)
               \/ \E id \in KnownIds, out \in DriverOutcomes : RejectDeviceAuth(p, id, out)
               \/ \E rsp \in UpdateResponses : propagateDeviceAuthUpdate(p, rsp)
               \/ \E out \in DriverOutcomes : updateDeviceAuthStatusPut(p, out)
               \/ \E id \in KnownIds, out \in DriverOutcomes : AcceptDevicePreAuth(p, id, out)
               \/ \E out \in DriverOutcomes : AcceptDevicePreAuthUpdate(p, out)
               \/ \E a \in AuthSets, h \in AuthorizationHeaders, out \in DriverOutcomes :
                      PreauthorizeDevice(p, a, h, out)
               \/ \E out \in DriverOutcomes : PreauthorizeDeviceInsert(p, out)
               \/ \E rsp \in PreauthResponses : propagatePreauthorizeDevice(p, rsp)

Spec == Init /\ [][Next]_vars

\* the admission requests on a device that has two auth sets
SpecDevice == InitDevice /\ [][Next]_vars

\* the databases the tenants have, as GetTenantDbs lists them
TenantDbLists == {<<>>, <<"acme">>}

NextMigration ==
    \E p \in Workers :
        \/ \E t \in TenantDbs \ {""} : ProvisionTenant(p, t)
        \/ \E out \in DriverOutcomes : ProvisionTenantMigrate(p, out)
        \/ \E found \in TenantDbLists, out \in DriverOutcomes : Migrate(p, found, out)
        \/ \E out \in DriverOutcomes : MigrateNext(p, out)

\* the service's migrations: Migrate at start-up and ProvisionTenant
SpecMigration == InitMigration /\ [][NextMigration]_vars

\* ============================================================ properties
\* the stored record with that id (the empty record when there is none)
Stored(coll, id) ==
    IF FindById(coll, id) = {} THEN EmptyDeviceAuth
    ELSE CHOOSE d \in FindById(coll, id) : TRUE

\* err is what Accept and Reject return when the remote status update failed
IsPropagationFailure(err) ==
    \/ IsUsageError(err)
    \/ err # Nil /\ Head(err) = "failed to propagate device status update"

\* ---------------------------------------------------------------------- C1
\* C1: when the remote UpdateDevice call of an Accept or Reject fails (usage
\* error, transport error or unexpected status code), the call returns an
\* error and has issued no store write: the collection is the same before and
\* after the failing step, and the handler had written nothing before it.
C1_RemoteFailureCommitsNothing ==
    [][\A p \in Workers :
          /\ pc[p] = "propagate" => writes[p] = 0
          /\ \A rsp \in UpdateResponses :
                propagateDeviceAuthUpdate(p, rsp) /\ ClientUpdateDevice(rsp) # Nil
                => /\ pc'[p] = "idle"
                   /\ last'.arg = arg[p]
                   /\ last'.err # Nil
                   /\ db' = db]_vars

\* an Accept or Reject has returned a propagation failure and the record it
\* named is stored with the status it had
C1_Witness ==
    /\ last.arg.op \in {"accept", "reject"}
    /\ IsPropagationFailure(last.err)
    /\ Stored(db, last.arg.id).status = DevStatusPending

\* ---------------------------------------------------------------------- C2
\* C2 as stated, read on the store writes of Accept, Reject and
\* AcceptPreauthorized: a stored status of accepted or rejected never
\* changes, and the only status changes are pending to accepted, pending to
\* rejected and preauthorized to accepted.
C2_NoTransitionOutOfFinal ==
    [][(\E p \in Workers : pc[p] \in {"put", "update"} /\ pc'[p] = "idle")
       => \A d \in db : \A e \in db' :
             d.id = e.id /\ d.status # e.status
             => <<d.status, e.status>> \in
                    { <<DevStatusPending, DevStatusAccepted>>,
                      <<DevStatusPending, DevStatusRejected>>,
                      <<DevStatusPreauthorized, DevStatusAccepted>> }]_vars

\* C2 amended: the engine checks the current status only in
\* AcceptPreauthorized.  Every change of a stored record's status is made by
\* the store write of an Accept (to accepted), of a Reject (to rejected), of
\* an AcceptPreauthorized that read preauthorized (to accepted), or of a
\* Submit carrying that id (to the status submitted), whatever the status
\* was before.
C2_StatusChangesByOperation ==
    [][\A d \in db : \A e \in db' :
          d.id = e.id /\ d.status # e.status
          => \/ \E p \in Workers :
                   /\ pc[p] = "put" /\ pc'[p] = "idle" /\ dev[p].id = d.id
                   /\ \/ arg[p].op = "accept" /\ e.status = DevStatusAccepted
                      \/ arg[p].op = "reject" /\ e.status = DevStatusRejected
             \/ \E p \in Workers :
                   /\ pc[p] = "update" /\ pc'[p] = "idle" /\ dev[p].id = d.id
                   /\ arg[p].op = "accept_preauth"
                   /\ dev[p].status = DevStatusPreauthorized
                   /\ e.status = DevStatusAccepted
             \/ /\ ops' = ops + 1
                /\ last'.arg.op = "submit" /\ last'.arg.id = d.id
                /\ e.status \in {t.status : t \in SubmitTemplates}]_vars

\* a record that was rejected has been accepted by an Accept
C2_Witness ==
    /\ last.arg.op = "accept" /\ last.err = Nil
    /\ Stored(db, last.arg.id).status = DevStatusAccepted
    /\ \E i \in 1..Len(remoteLog) :
          /\ remoteLog[i].auth_id = last.arg.id
          /\ remoteLog[i].status = DevStatusRejected

\* ---------------------------------------------------------------------- C3
\* C3: AcceptPreauthorized on a stored record whose status is not
\* preauthorized returns ErrNotPreauthorized at once, writes nothing to the
\* store and calls the auth service not at all.
C3_NotPreauthorizedShortCircuits ==
    [][\A p \in Workers : \A id \in KnownIds :
          /\ AcceptDevicePreAuth(p, id, "ok")
          /\ FindById(db, id) # {}
          /\ Stored(db, id).status # DevStatusPreauthorized
          => /\ pc'[p] = "idle"
             /\ last'.arg.op = "accept_preauth" /\ last'.arg.id = id
             /\ last'.err = ErrNotPreauthorized
             /\ db' = db
             /\ remoteLog' = remoteLog
             /\ preauthLog' = preauthLog]_vars

\* an AcceptPreauthorized on a pending, accepted or rejected record has
\* returned ErrNotPreauthorized
C3_Witness ==
    /\ last.arg.op = "accept_preauth"
    /\ last.err = ErrNotPreauthorized
    /\ Stored(db, last.arg.id).status \in
           {DevStatusPending, DevStatusAccepted, DevStatusRejected}

\* ---------------------------------------------------------------------- C4
\* C4: a PreauthorizeDevice whose existence check finds a stored record with
\* the same identity data, in any status, returns AuthSetConflictError at
\* once: no record is inserted, no identifier is generated and the auth
\* service is not called.
C4_ExistingIdentityConflicts ==
    [][\A p \in Workers : \A a \in AuthSets : \A h \in AuthorizationHeaders :
          /\ PreauthorizeDevice(p, a, h, "ok")
          /\ \E d \in db : d.device_identity = a.device_id
          => /\ pc'[p] = "idle"
             /\ last'.arg.op = "preauthorize" /\ last'.arg.authSet = a
             /\ last'.err = AuthSetConflictError
             /\ db' = db
             /\ nextObj' = nextObj
             /\ remoteLog' = remoteLog
             /\ preauthLog' = preauthLog]_vars

\* a PreauthorizeDevice has returned the conflict error over a record of the
\* same identity that is not preauthorized
C4_Witness ==
    /\ last.arg.op = "preauthorize"
    /\ last.err = AuthSetConflictError
    /\ \E d \in db : /\ d.device_identity = last.arg.authSet.device_id
                     /\ d.status # DevStatusPreauthorized

\* ---------------------------------------------------------------------- C5
\* the records pre-authorization created: those stored under generated ids
CreatedByPreauthorize(coll) == {d \in coll : d.id \notin SubmitIds}

\* C5 as stated: in every reachable state the store holds at most one record
\* created by pre-authorization for a given identity.
C5_AtMostOnePreauthorizedPerIdentity ==
    \A a \in AuthSets :
        Cardinality({d \in CreatedByPreauthorize(db) :
                        d.device_identity = a.device_id}) <= 1

\* C5 amended: the existence check and the insert are two store calls.  A
\* PreauthorizeDevice inserts one record, and only after its own check found
\* no record of that identity; calls whose checks all run before the first
\* insert all insert.
C5_InsertsAfterOwnEmptyCheck ==
    [][\A p \in Workers :
          /\ pc[p] = "insert" => deviceAuths[p] = {} /\ writes[p] = 0
          /\ \A out \in DriverOutcomes :
                PreauthorizeDeviceInsert(p, out)
                => /\ Cardinality(db' \ db) <= 1
                   /\ db \subseteq db'
                   /\ \A d \in db' \ db :
                         /\ d.device_identity = arg[p].authSet.device_id
                         /\ d.status = DevStatusPreauthorized
                         /\ d.id \notin {e.id : e \in db}]_vars

\* two concurrent calls both passed the check and both inserted
C5_Witness ==
    \E d1 \in db : \E d2 \in db :
        /\ d1.id # d2.id
        /\ d1.device_identity = d2.device_identity
        /\ d1.status = DevStatusPreauthorized
        /\ d2.status = DevStatusPreauthorized

\* ---------------------------------------------------------------------- C6
\* the status request an Accept or Reject of worker p sends
StatusReq(p) ==
    [auth_id |-> dev[p].id, device_id |-> dev[p].device_id, status |-> arg[p].status]

InLog(req) == \E i \in 1..Len(remoteLog) : remoteLog[i] = req

\* the last handler to return was an Accept that committed accepted, and the
\* record is as it left it
AcceptCommitted ==
    /\ last.arg.op = "accept" /\ last.err = Nil
    /\ Stored(db, last.arg.id).status = DevStatusAccepted

\* C6 as stated: whenever the stored status was set to accepted by Accept,
\* the last status the auth service received for that record is accepted.
C6_AcceptedLocallyAcceptedRemotely ==
    AcceptCommitted
    => RemoteStatus(remoteLog, Stored(db, last.arg.id).device_id, last.arg.id)
           = DevStatusAccepted

\* C6 amended: Accept and Reject write the status only after the auth service
\* answered success to their own request, sent with the auth id and the
\* device id they read, so a status accepted by Accept has been received by
\* the auth service for that auth id.  It need not be the last one received,
\* since a Reject on the same record may have been answered after it, nor
\* carry the device id now stored, since a Submit may have rewritten that
\* after Accept's read.
C6_AcceptedLocallyWasReceivedRemotely ==
    /\ \A p \in Workers : pc[p] = "put" => InLog(StatusReq(p))
    /\ AcceptCommitted
       => \E i \in 1..Len(remoteLog) :
             /\ remoteLog[i].auth_id = last.arg.id
             /\ remoteLog[i].status = DevStatusAccepted

\* Accept committed accepted while the auth service last received rejected
C6_Witness ==
    /\ AcceptCommitted
    /\ RemoteStatus(remoteLog, Stored(db, last.arg.id).device_id, last.arg.id)
           = DevStatusRejected

\* ---------------------------------------------------------------------- C7
\* worker p's handler returns success from its store write in this step
CommitsOk(p) ==
    /\ pc[p] \in {"put", "update"}
    /\ pc'[p] = "idle"
    /\ last'.arg = arg[p]
    /\ last'.err = Nil

\* C7 as stated: every transition that completes successfully, through
\* Accept, Reject or AcceptPreauthorized, leaves the target status stored and
\* has called the auth service's status update exactly once, with the
\* record's device id, auth id and the target status.
C7_EveryTransitionPropagatesOnce ==
    [][\A p \in Workers :
          CommitsOk(p)
          => /\ Stored(db', dev[p].id).status = arg[p].status
             /\ calls[p] = <<StatusReq(p)>>]_vars

\* C7 amended: that holds for Accept and Reject; a successful
\* AcceptPreauthorized leaves accepted stored and has called the auth service
\* not at all.
C7_AcceptRejectPropagateOnce ==
    [][\A p \in Workers :
          CommitsOk(p)
          => /\ Stored(db', dev[p].id).status = arg[p].status
             /\ arg[p].op \in {"accept", "reject"}
                => /\ calls[p] = <<StatusReq(p)>>
                   /\ dev[p].id = arg[p].id
                   /\ arg[p].status = IF arg[p].op = "accept"
                                      THEN DevStatusAccepted ELSE DevStatusRejected
             /\ arg[p].op = "accept_preauth"
                => /\ calls[p] = <<>>
                   /\ arg[p].status = DevStatusAccepted]_vars

\* an Accept or Reject has completed: the target status is stored and is the
\* one the auth service received last for the record
C7_Witness ==
    /\ last.arg.op \in {"accept", "reject"} /\ last.err = Nil
    /\ Stored(db, last.arg.id).status = last.arg.status
    /\ RemoteStatus(remoteLog, Stored(db, last.arg.id).device_id, last.arg.id)
           = last.arg.status

\* ---------------------------------------------------------------------- C8
\* C8: AcceptPreauthorized on a record read as preauthorized makes no call to
\* the auth service in either of its steps, issues one store update, and on
\* success leaves accepted stored with the remote view as it was.
C8_AcceptPreauthorizedIsLocal ==
    [][\A p \in Workers :
          /\ \A id \in KnownIds : \A out \in DriverOutcomes :
                AcceptDevicePreAuth(p, id, out)
                => db' = db /\ remoteLog' = remoteLog /\ preauthLog' = preauthLog
          /\ pc[p] = "update"
             => /\ dev[p].status = DevStatusPreauthorized
                /\ calls[p] = <<>>
                /\ writes[p] = 0
          /\ \A out \in DriverOutcomes :
                AcceptDevicePreAuthUpdate(p, out)
                => /\ remoteLog' = remoteLog
                   /\ preauthLog' = preauthLog
                   /\ pc'[p] = "idle"
                   /\ last'.err = Nil
                      => /\ out = "ok"
                         /\ Stored(db', dev[p].id).status = DevStatusAccepted
                         /\ Cardinality(db') = Cardinality(db)]_vars

\* an AcceptPreauthorized has succeeded and the auth service has received no
\* status request
C8_Witness ==
    /\ last.arg.op = "accept_preauth" /\ last.err = Nil
    /\ Stored(db, last.arg.id).status = DevStatusAccepted
    /\ remoteLog = <<>>

\* ---------------------------------------------------------------------- C9
\* C9: PreauthorizeDevice inserts the record, with status preauthorized,
\* before it calls the auth service; when that call fails the handler returns
\* the wrapped error and leaves the collection as it is.
C9_FailedPreauthorizeKeepsRecord ==
    [][\A p \in Workers :
          /\ pc[p] = "propagate_preauth"
             => /\ writes[p] = 1
                /\ calls[p] = <<>>
                /\ dev[p].status = DevStatusPreauthorized
          /\ \A out \in DriverOutcomes :
                PreauthorizeDeviceInsert(p, out)
                => /\ preauthLog' = preauthLog
                   /\ pc'[p] = "propagate_preauth" => dev'[p] \in db'
          /\ \A rsp \in PreauthResponses :
                propagatePreauthorizeDevice(p, rsp) /\ ClientPreauthorizeDevice(rsp) # Nil
                => /\ pc'[p] = "idle"
                   /\ last'.arg = arg[p]
                   /\ last'.err = <<"failed to propagate device status update">>
                                      \o ClientPreauthorizeDevice(rsp)
                   /\ db' = db
                   /\ preauthLog' = preauthLog]_vars

\* a PreauthorizeDevice has returned the propagation error and a
\* preauthorized record of its identity is stored
C9_Witness ==
    /\ last.arg.op = "preauthorize"
    /\ last.err # Nil
    /\ Head(last.err) = "failed to propagate device status update"
    /\ \E d \in db : /\ d.device_identity = last.arg.authSet.device_id
                     /\ d.status = DevStatusPreauthorized
                     /\ \A r \in preauthLog : r.auth_set_id # d.id

\* --------------------------------------------------------------------- C10
Fields == DOMAIN EmptyDeviceAuth

\* every field of the record is set
Populated(d) == \A f \in Fields : d[f] # EmptyDeviceAuth[f]

\* new is old with exactly the non-empty fields of supplied written over it
MergedFrom(old, supplied, new) ==
    \A f \in Fields \ {"id"} :
        new[f] = IF supplied[f] = EmptyDeviceAuth[f] THEN old[f] ELSE supplied[f]

C11_RequestTimeNeverChanges ==
    [][\A d \in db : \A e \in db' :
          d.id = e.id => e.request_time = d.request_time]_vars

\* C11 amended: every Submit stamps the record it stores with the time of
\* the call, also when a record with that id is already stored; no other
\* operation changes the request time of a stored record.
C11_RequestTimeChangedOnlyBySubmit ==
    [][/\ \A d \in db : \A e \in db' :
             d.id = e.id /\ e.request_time # d.request_time
             => /\ ops' = ops + 1
                /\ last'.arg.op = "submit" /\ last'.arg.id = d.id
                /\ last'.err = Nil
                /\ e.request_time = clock'
       /\ \A p \in Workers : \A id \in KnownIds : \A t \in SubmitTemplates :
             SubmitDeviceAuth(p, [t EXCEPT !.id = id], "ok")
             => /\ clock' = clock + 1
                /\ Stored(db', id).request_time = clock']_vars

\* the first operation of the behaviour was a Submit carrying the id of the
\* one record stored, and the record's request time is the later stamp
C11_Witness ==
    /\ last.arg.op = "submit" /\ last.err = Nil
    /\ ops = 1 /\ clock = 2
    /\ Cardinality(db) = 1
    /\ Stored(db, last.arg.id).request_time = 2

\* --------------------------------------------------------------------- C12
\* C12 as stated, read on the steps that bring a record into existence: each
\* is a Submit or the insert of a PreauthorizeDevice, the latter with status
\* preauthorized; no other step of a public operation creates a record.
C12_OnlySubmitAndPreauthorizeCreate ==
    [][\A e \in db' :
          e.id \notin {d.id : d \in db}
          => \/ /\ ops' = ops + 1
                /\ last'.arg.op = "submit" /\ last'.arg.id = e.id
             \/ \E p \in Workers :
                   /\ pc[p] = "insert"
                   /\ e.status = DevStatusPreauthorized]_vars

\* --------------------------------------------------------------------- C13
\* C13: for an id with no stored record, Accept and Reject return the store's
\* not-found error and AcceptPreauthorized returns ErrAuthNotFound; the
\* handler ends there, with the collection and the auth service untouched.
C13_MissingRecordIsNotFound ==
    [][\A p \in Workers : \A id \in KnownIds :
          FindById(db, id) = {}
          => /\ AcceptDeviceAuth(p, id, "ok") \/ RejectDeviceAuth(p, id, "ok")
                => /\ pc'[p] = "idle"
                   /\ last'.arg.op \in {"accept", "reject"} /\ last'.arg.id = id
                   /\ last'.err = StoreErrNotFound
                   /\ db' = db
                   /\ remoteLog' = remoteLog /\ preauthLog' = preauthLog
             /\ AcceptDevicePreAuth(p, id, "ok")
                => /\ pc'[p] = "idle"
                   /\ last'.arg.op = "accept_preauth" /\ last'.arg.id = id
                   /\ last'.err = ErrAuthNotFound
                   /\ db' = db
                   /\ remoteLog' = remoteLog /\ preauthLog' = preauthLog]_vars

\* an Accept or Reject and an AcceptPreauthorized have both been refused for
\* an id that has no record
C13_Witness ==
    /\ ops = 2
    /\ last.arg.op = "accept_preauth" /\ last.err = ErrAuthNotFound
    /\ FindById(db, last.arg.id) = {}
    /\ remoteLog = <<>>
    /\ \A p \in Workers : pc[p] = "idle"

\* --------------------------------------------------------------------- C14
\* C14: Delete removes the record with the id it is given and no other;
\* without such a record it returns the store's not-found error as it is and
\* the collection is unchanged; any other failure of the store comes back
\* wrapped, the collection unchanged.
C14_DeleteRemovesOneOrReports ==
    [][\A p \in Workers : \A id \in KnownIds : \A out \in DriverOutcomes :
          DeleteDeviceAuth(p, id, out)
          => /\ last'.arg.op = "delete" /\ last'.arg.id = id
             /\ out = "ok" /\ FindById(db, id) # {}
                => /\ last'.err = Nil
                   /\ db' = {d \in db : d.id # id}
                   /\ Cardinality(db') = Cardinality(db) - 1
             /\ out = "ok" /\ FindById(db, id) = {}
                => last'.err = StoreErrNotFound /\ db' = db
             /\ out # "ok"
                => /\ last'.err # Nil /\ last'.err # StoreErrNotFound
                   /\ Head(last'.err) = "failed to delete device"
                   /\ db' = db]_vars

\* a Delete has removed one of two stored records and the other is left
C14_Witness ==
    /\ last.arg.op = "delete" /\ last.err = Nil
    /\ FindById(db, last.arg.id) = {}
    /\ Cardinality(db) = 1

\* --------------------------------------------------------------------- C16
\* C16: when the bulk removal of DeleteByDevice fails in the driver, the call
\* returns an error that is neither nil nor the not-found error.
C16_BulkRemovalFailureIsReported ==
    [][\A p \in Workers : \A devid \in KnownDeviceIds : \A out \in DriverOutcomes :
          DeleteDeviceData(p, devid, out) /\ out # "ok"
          => /\ last'.err # Nil
             /\ last'.err # StoreErrNotFound]_vars

\* --------------------------------------------------------------------- C17
\* err is what Accept and Reject return when their store write failed
IsPutFailure(err) == err \in {MgoErr, Wrap(MgoErr, "failed to store device")}

\* the status requests the auth service answered for auth set aid with
\* status st
Received(log, aid, st) ==
    {i \in 1..Len(log) : log[i].auth_id = aid /\ log[i].status = st}

\* C17 as stated: when the store write of an Accept or Reject fails after
\* its remote call succeeded, the call returns an error, the auth service
\* holds the new status and the record is as it was; and when the store
\* write succeeds, stored and remote status both equal the target.
C17_RemoteHoldsTargetAfterWrite ==
    [][\A p \in Workers :
          /\ \A out \in DriverOutcomes :
                updateDeviceAuthStatusPut(p, out) /\ out # "ok"
                => /\ last'.err # Nil
                   /\ db' = db
                   /\ RemoteStatus(remoteLog, dev[p].device_id, dev[p].id) = arg[p].status
          /\ CommitsOk(p) /\ arg[p].op \in {"accept", "reject"}
             => /\ Stored(db', dev[p].id).status = arg[p].status
                /\ RemoteStatus(remoteLog', dev[p].device_id, dev[p].id)
                       = arg[p].status]_vars

\* C17 amended: when the store write of an Accept or Reject fails after its
\* remote call succeeded, the call returns an error, the auth service has
\* received the new status and the record is as it was.  A retry sends the
\* same request again, and when its store write succeeds with no other
\* request in flight since the failed call returned, stored and remote
\* status both equal the target.  With another Accept or Reject on the
\* record in between, the auth service may hold that one's status instead.
C17_RetryAfterFailedWrite ==
    [][\A p \in Workers :
          /\ \A out \in DriverOutcomes :
                updateDeviceAuthStatusPut(p, out) /\ out # "ok"
                => /\ pc'[p] = "idle"
                   /\ last'.arg = arg[p]
                   /\ IsPutFailure(last'.err)
                   /\ db' = db
                   /\ InLog(StatusReq(p))
          /\ /\ CommitsOk(p) /\ arg[p].op \in {"accept", "reject"}
             /\ last.arg = arg[p] /\ IsPutFailure(last.err)
             /\ \A q \in Workers \ {p} : pc[q] = "idle"
             => /\ calls[p] = <<StatusReq(p)>>
                /\ Cardinality(Received(remoteLog, dev[p].id, arg[p].status)) >= 2
                /\ Stored(db', dev[p].id).status = arg[p].status
                /\ RemoteStatus(remoteLog', dev[p].device_id, dev[p].id)
                       = arg[p].status]_vars

\* the store write of an Accept or Reject has failed, the record is still
\* pending while the auth service holds the target status, and the retry has
\* sent its request and stands before its store write
C17_Witness ==
    \E p \in Workers :
        /\ pc[p] = "put"
        /\ last.arg = arg[p] /\ IsPutFailure(last.err)
        /\ Stored(db, dev[p].id).status = DevStatusPending
        /\ RemoteStatus(remoteLog, dev[p].device_id, dev[p].id) = arg[p].status
        /\ Cardinality(Received(remoteLog, dev[p].id, arg[p].status)) = 2

\* --------------------------------------------------------------------- C18
\* C18: in every reachable state no two stored records have the same id.
C18_IdsUnique ==
    \A d \in db : \A e \in db : d.id = e.id => d = e

\* a submitted record has been written twice and a pre-authorized record is
\* stored beside it
C18_Witness ==
    /\ \E d \in db : d.id \in SubmitIds /\ d.request_time >= 2
    /\ \E e \in db : e.id \notin SubmitIds
    /\ \A p \in Workers : pc[p] = "idle"

\* --------------------------------------------------------------------- C20
\* C20: UpdateDevice, as Accept and Reject call it, classifies the response:
\* 204 is success; a 422 whose body parses as an API error is a usage error;
\* a 422 whose body does not parse is a wrapped error that is no usage error;
\* any other code is an error carrying the status and no usage error; a
\* transport error is a wrapped error and no usage error.
C20_UpdateDeviceClassifies ==
    [][\A p \in Workers : \A rsp \in UpdateResponses :
          propagateDeviceAuthUpdate(p, rsp)
          => LET e == ClientUpdateDevice(rsp)
                 unprocessable == ~rsp.transport /\ rsp.code = StatusUnprocessableEntity
             IN  /\ ~rsp.transport /\ rsp.code = StatusNoContent
                    => e = Nil /\ pc'[p] = "put"
                 /\ rsp.transport \/ rsp.code # StatusNoContent
                    => e # Nil /\ pc'[p] = "idle"
                 /\ unprocessable /\ rsp.api
                    => IsUsageError(e) /\ last'.err = e
                 /\ unprocessable /\ ~rsp.api
                    => /\ ~IsUsageError(e)
                       /\ Head(e) = "device status update request failed"
                       /\ Len(e) > 1
                       /\ last'.err = <<"failed to propagate device status update">> \o e
                 /\ /\ ~rsp.transport
                    /\ rsp.code \notin {StatusNoContent, StatusUnprocessableEntity}
                    => /\ ~IsUsageError(e)
                       /\ e = <<"device status update request failed with status",
                                ToString(rsp.code)>>
                       /\ last'.err = <<"failed to propagate device status update">> \o e
                 /\ rsp.transport
                    => /\ ~IsUsageError(e)
                       /\ e = <<"failed to update device status">> \o HttpErr
                       /\ last'.err = <<"failed to propagate device status update">> \o e]_vars

\* an Accept or Reject has failed on a 200 answer of the auth service, which
\* UpdateDevice reports as a failure carrying the status
C20_Witness ==
    /\ last.arg.op \in {"accept", "reject"}
    /\ last.err = <<"failed to propagate device status update",
                    "device status update request failed with status", "200">>

\* --------------------------------------------------------------------- C15
\* C15: DeleteByDevice whose bulk removal runs removes every record of the
\* device it names and no record of another device and returns success when
\* it removed one or more; with no record of that device it returns the
\* not-found error and the collection is unchanged.
C15_DeleteByDeviceRemovesAll ==
    [][\A p \in Workers : \A devid \in KnownDeviceIds :
          DeleteDeviceData(p, devid, "ok")
          => /\ last'.arg.op = "delete_device" /\ last'.arg.device_id = devid
             /\ db' = {d \in db : d.device_id # devid}
             /\ (\E d \in db : d.device_id = devid) => last'.err = Nil
             /\ ~(\E d \in db : d.device_id = devid)
                => last'.err = StoreErrNotFound /\ db' = db]_vars

\* the first operation was a DeleteByDevice that removed both auth sets of
\* the device and left the other device's record
C15_Witness ==
    /\ ops = 1
    /\ last.arg.op = "delete_device" /\ last.err = Nil
    /\ Cardinality(db) = 1
    /\ \A d \in db : d.device_id # last.arg.device_id

\* --------------------------------------------------------------------- C19
\* C19: ProvisionTenant migrates on a store value whose automigrate flag is
\* on, whatever the flag of the engine's store: a database behind DbVersion
\* is brought to it.  WithAutomigrate returns a new value: the flag of the
\* engine's store is the same after every step, and a Migrate on the
\* engine's store runs with that flag.
C19_ProvisionTenantAutomigrates ==
    [][/\ automigrate' = automigrate
       /\ \A p \in Workers :
             /\ \A t \in TenantDbs :
                   ProvisionTenant(p, t)
                   => /\ mdb'[p].automigrate
                      /\ mdb'[p] = WithAutomigrate(NewDataStoreMongo(automigrate))
             /\ pc[p] = "migrate_tenant" => mdb[p].automigrate
             /\ ProvisionTenantMigrate(p, "ok")
                => /\ last'.arg.op = "provision" /\ last'.err = Nil
                   /\ ~VersionIsLess(tenantDbs'[arg[p].tenant], DbVersion)
                   /\ \A t \in TenantDbs \ {arg[p].tenant} : tenantDbs'[t] = tenantDbs[t]
             /\ pc[p] = "migrate" => mdb[p].automigrate = automigrate]_vars

\* with automigrate off, a ProvisionTenant has brought its tenant's database
\* to DbVersion while a Migrate runs on the engine's store with the flag off
C19_Witness ==
    /\ ~automigrate
    /\ last.arg.op = "provision" /\ last.err = Nil
    /\ tenantDbs[last.arg.tenant] = DbVersion
    /\ VersionIsLess(tenantDbs[""], DbVersion)
    /\ \E q \in Workers : pc[q] = "migrate" /\ ~mdb[q].automigrate

\* --------------------------------------------------------------------- C21
\* C21: when the remote call of an Accept or Reject fails, the engine returns
\* the error as it is exactly when it is a usage error and wrapped as a
\* propagation failure otherwise; what the caller gets is a usage error
\* exactly when the client returned one.
C21_UsageErrorsPassThrough ==
    [][\A p \in Workers : \A rsp \in UpdateResponses :
          propagateDeviceAuthUpdate(p, rsp) /\ ClientUpdateDevice(rsp) # Nil
          => LET e == ClientUpdateDevice(rsp)
             IN  /\ (last'.err = e) <=> IsUsageError(e)
                 /\ ~IsUsageError(e)
                    => last'.err = <<"failed to propagate device status update">> \o e
                 /\ IsUsageError(last'.err) <=> IsUsageError(e)]_vars

\* an Accept or Reject has returned the usage error of the auth service
C21_Witness ==
    /\ last.arg.op \in {"accept", "reject"}
    /\ IsUsageError(last.err)
    /\ last.err = NewUsageError("api error")

\* --------------------------------------------------------------------- C22
\* the request PreauthorizeDevice of worker p sends for the record it holds
PreAuthReq(p) ==
    [device_id |-> dev[p].device_id, auth_set_id |-> dev[p].id,
     id_data |-> arg[p].authSet.device_id, pubkey |-> arg[p].authSet.key,
     authorization |-> arg[p].hdr]

\* C22: a PreauthorizeDevice past its existence check builds the record from
\* the auth set, with status preauthorized and the request time read from
\* the clock, inserts it under a new id and device id, and then makes the
\* one remote call, carrying those two identifiers, the identity data, the
\* key and the caller's authorization header.
C22_PreauthorizeInsertsThenCalls ==
    [][\A p \in Workers :
          /\ \A out \in DriverOutcomes :
                PreauthorizeDeviceInsert(p, out) /\ pc'[p] = "propagate_preauth"
                => /\ dev'[p] = [id |-> NewObjectId(nextObj),
                                 device_id |-> NewObjectId(nextObj + 1),
                                 device_identity |-> arg[p].authSet.device_id,
                                 key |-> arg[p].authSet.key,
                                 status |-> DevStatusPreauthorized,
                                 attributes |-> arg[p].authSet.attributes,
                                 request_time |-> clock + 1]
                   /\ clock' = clock + 1
                   /\ dev'[p].id \notin {d.id : d \in db}
                   /\ dev'[p].device_id \notin {d.device_id : d \in db}
                   /\ db' = db \cup {dev'[p]}
                   /\ preauthLog' = preauthLog
                   /\ calls[p] = <<>>
          /\ \A rsp \in PreauthResponses :
                propagatePreauthorizeDevice(p, rsp)
                => /\ pc'[p] = "idle"
                   /\ writes[p] = 1
                   /\ preauthLog' \subseteq preauthLog \cup {PreAuthReq(p)}
                   /\ ClientPreauthorizeDevice(rsp) = Nil
                      => /\ last'.err = Nil
                         /\ PreAuthReq(p) \in preauthLog'
                         /\ PreAuthReq(p).pubkey # ""]_vars

\* a PreauthorizeDevice has succeeded: its record is stored as built and the
\* auth service holds the request made of it
C22_Witness ==
    /\ last.arg.op = "preauthorize" /\ last.err = Nil
    /\ \E d \in db :
          /\ d.status = DevStatusPreauthorized
          /\ d.device_identity = last.arg.authSet.device_id
          /\ d.key = last.arg.authSet.key
          /\ d.request_time = clock
          /\ [device_id |-> d.device_id, auth_set_id |-> d.id,
              id_data |-> d.device_identity, pubkey |-> d.key,
              authorization |-> last.arg.hdr] \in preauthLog

\* --------------------------------------------------------------------- C23
\* C23: the status write of an Accept or Reject stores no record under an id
\* that is not stored: a record deleted since the handler read it stays
\* deleted.
C23_StatusWriteNeverInserts ==
    [][\A p \in Workers : \A out \in DriverOutcomes :
          updateDeviceAuthStatusPut(p, out)
          => {e.id : e \in db'} \subseteq {d.id : d \in db}]_vars

\* --------------------------------------------------------------------- C24
\* C24: AcceptPreauthorized writes accepted only over a record whose stored
\* status is preauthorized when the write is made.
C24_WritesOverPreauthorizedOnly ==
    [][\A p \in Workers :
          /\ AcceptDevicePreAuthUpdate(p, "ok")
          /\ FindById(db, dev[p].id) # {}
          => Stored(db, dev[p].id).status = DevStatusPreauthorized]_vars

\* --------------------------------------------------------------------- C25
\* the auth service has not been told of record d
Uninformed(d, log) == \A r \in log : r.auth_set_id # d.id

\* the preauthorized records of that identity the auth service has not been
\* told of
LeftBehind(coll, log, idata) ==
    {d \in coll : /\ d.device_identity = idata
                  /\ d.status = DevStatusPreauthorized
                  /\ Uninformed(d, log)}

====
